---------------------------- MODULE Spec2Model ----------------------------
(***************************************************************************)
(* Model of the contact-form mail relay of Portfolio-Backend:              *)
(* src/routes/email.js (the POST /send-email handler, its validation and   *)
(* sanitisation helpers, the in-memory rate limiter with its periodic      *)
(* sweep, and the lazily built transporter).                               *)
(*                                                                         *)
(* A JavaScript string is a sequence of one-character strings; a           *)
(* JavaScript value is a record [t |-> typeof, v |-> characters].          *)
(***************************************************************************)
EXTENDS Integers, Sequences, FiniteSets, Bags, TLC

(***************************************************************************)
(* Program constants                                                       *)
(***************************************************************************)
SANITIZE_MAX == 5000
EMAIL_MAX == 254
NAME_MIN == 2
NAME_MAX == 100
MESSAGE_MIN == 10
MESSAGE_MAX == 5000
MAX_REQUESTS == 5
WINDOW_MS == 3600000
SWEEP_WINDOW_MS == 3600000
SWEEP_INTERVAL_MS == 300000
SMTP_TIMEOUT_MS == 30000
SENDGRID_TIMEOUT_MS == 60000

(***************************************************************************)
(* Strings                                                                 *)
(***************************************************************************)
WhiteSpace == {" ", "\n", "\t"}

Rep(c, n) == [i \in 1..n |-> c]

Str(s) == [t |-> "string", v |-> s]
Undefined == [t |-> "undefined", v |-> <<>>]
Num == [t |-> "number", v |-> <<>>]

\* JavaScript truthiness of a value: a string is truthy iff non-empty,
\* undefined is falsy, the number used here (42) is truthy.
Truthy(x) == IF x.t = "string" THEN x.v # <<>> ELSE x.t = "number"

RECURSIVE FirstNonWs(_, _)
FirstNonWs(s, i) ==
  IF i > Len(s) THEN i
  ELSE IF s[i] \in WhiteSpace THEN FirstNonWs(s, i + 1) ELSE i

RECURSIVE LastNonWs(_, _)
LastNonWs(s, i) ==
  IF i < 1 THEN i
  ELSE IF s[i] \in WhiteSpace THEN LastNonWs(s, i - 1) ELSE i

\* String.prototype.trim
Trim(s) ==
  LET a == FirstNonWs(s, 1)
      b == LastNonWs(s, Len(s))
  IN IF a > b THEN <<>> ELSE SubSeq(s, a, b)

\* String.prototype.substring(0, n)
Substring0(s, n) == IF Len(s) <= n THEN s ELSE SubSeq(s, 1, n)

LowerChar(c) ==
  CASE c = "A" -> "a"
    [] c = "B" -> "b"
    [] c = "L" -> "l"
    [] OTHER -> c

\* String.prototype.toLowerCase
ToLowerCase(s) == [i \in 1..Len(s) |-> LowerChar(s[i])]

\* s[a..b] matches [^\s@]+
InClassPlus(s, a, b) == a <= b /\ \A k \in a..b : s[k] \notin WhiteSpace /\ s[k] # "@"

\* /^[^\s@]+@[^\s@]+\.[^\s@]+$/.test(s): s splits into a match of the first
\* class, an @, a match of the second class, a dot and a match of the third.
EmailRegexTest(s) ==
  \E at \in {i \in 1..Len(s) : s[i] = "@"} :
    /\ InClassPlus(s, 1, at - 1)
    /\ \E dot \in {j \in (at + 1)..Len(s) : s[j] = "."} :
         InClassPlus(s, at + 1, dot - 1) /\ InClassPlus(s, dot + 1, Len(s))

validateEmailUntrimmed(email) ==
  IF ~Truthy(email) \/ email.t # "string" THEN FALSE
  ELSE LET trimmedEmail == ToLowerCase(email.v)
       IN EmailRegexTest(trimmedEmail) /\ Len(trimmedEmail) <= EMAIL_MAX

validateEmail(email) ==
  IF ~Truthy(email) \/ email.t # "string" THEN FALSE
  ELSE LET trimmedEmail == ToLowerCase(Trim(email.v))
       IN EmailRegexTest(trimmedEmail) /\ Len(trimmedEmail) <= EMAIL_MAX

sanitizeInput(input) ==
  IF input.t # "string" THEN <<>>
  ELSE Substring0(Trim(input.v), SANITIZE_MAX)


RECURSIVE ReplaceAll(_, _, _)
ReplaceAll(s, c, e) ==
  IF s = <<>> THEN <<>>
  ELSE (IF Head(s) = c THEN e ELSE <<Head(s)>>) \o ReplaceAll(Tail(s), c, e)

escapeHtmlAmpersandLast(text) ==
  ReplaceAll(ReplaceAll(ReplaceAll(ReplaceAll(ReplaceAll(text,
    "<", <<"&", "l", "t", ";">>),
    ">", <<"&", "g", "t", ";">>),
    "\"", <<"&", "q", "u", "o", "t", ";">>),
    "'", <<"&", "#", "0", "3", "9", ";">>),
    "&", <<"&", "a", "m", "p", ";">>)

\* The map of escapeHtml; a character it does not hold is not matched by the
\* regular expression and stays.
EscapeMap(m) ==
  CASE m = "&" -> <<"&", "a", "m", "p", ";">>
    [] m = "<" -> <<"&", "l", "t", ";">>
    [] m = ">" -> <<"&", "g", "t", ";">>
    [] m = "\"" -> <<"&", "q", "u", "o", "t", ";">>
    [] m = "'" -> <<"&", "#", "0", "3", "9", ";">>
    [] OTHER -> <<m>>

RECURSIVE escapeHtml(_)
\* text.replace(/[&<>"']/g, (m) => map[m]): one scan from left to right.
escapeHtml(text) ==
  IF text = <<>> THEN <<>> ELSE EscapeMap(Head(text)) \o escapeHtml(Tail(text))

RECURSIVE NewlinesToBr(_)
\* .replace(/\n/g, '<br>')
NewlinesToBr(s) ==
  IF s = <<>> THEN <<>>
  ELSE (IF Head(s) = "\n" THEN <<"<", "b", "r", ">">> ELSE <<Head(s)>>)
       \o NewlinesToBr(Tail(s))

\* mailOptions of the nodemailer handler: the fixed parts of the two templates
\* are named, the interpolated values are kept character by character (the
\* date of the footer is left out).
MailOptions(name, email, message) ==
  [replyTo |-> email,
   subject |-> <<"New Portfolio Contact from ", escapeHtml(name)>>,
   html |-> <<"<div><h2>New Message</h2><strong>Name:</strong><span>",
              escapeHtml(name),
              "</span><strong>Email:</strong><span>",
              escapeHtml(email),
              "</span><strong>Message:</strong><div>",
              NewlinesToBr(escapeHtml(message)),
              "</div><hr><p>This message was sent from your portfolio contact form.</p></div>">>,
   text |-> <<"Name: ", name, "Email: ", email, "Message:", message,
              "---This message was sent from your portfolio contact form.">>]

(***************************************************************************)
(* Request bodies offered to the handler                                   *)
(***************************************************************************)
GoodName == Str(<<"A", "l">>)
GoodEmail == Str(<<"A", "l", "@", "b", ".", "c", "o">>)
GoodMessage == Str(Rep("x", MESSAGE_MIN))

Body(n, e, m) == [isObject |-> TRUE, name |-> n, email |-> e, message |-> m]
NotAnObject == [isObject |-> FALSE, name |-> Undefined, email |-> Undefined,
                message |-> Undefined]

Bodies ==
  << Body(GoodName, GoodEmail, GoodMessage),                          \* 1
     Body(GoodName, GoodEmail, Str(<<"s", "h", "o", "r", "t">>)),     \* 2
     NotAnObject,                                                     \* 3
     Body(Undefined, GoodEmail, GoodMessage),                         \* 4
     Body(Str(<<"a">>), Undefined, GoodMessage),                      \* 5
     Body(Str(<<" ", "a", " ">>), GoodEmail, GoodMessage),            \* 6
     Body(Str(Rep("n", NAME_MAX + 1)), GoodEmail, GoodMessage),       \* 7
     Body(Str(Rep("n", NAME_MAX)), GoodEmail, GoodMessage),           \* 8
     Body(GoodName, Str(<<"n", "o", "t", "-", "a", "n">>), GoodMessage), \* 9
     Body(GoodName, Str(Rep("a", EMAIL_MAX - 3) \o <<"@", "b", ".", "c">>),
          GoodMessage),                                               \* 10
     Body(GoodName, GoodEmail, Undefined),                            \* 11
     Body(GoodName, GoodEmail, Str(Rep("x", MESSAGE_MAX + 1))),       \* 12
     Body(Str(<<" ", "\t">>), Num, Str(<<"\n">>)),                    \* 13
     Body(Str(<<"a">>), Str(<<"x", "@", "y">>), Str(<<"h", "i">>)),   \* 14
     Body(GoodName, Undefined, Undefined),                            \* 15
     Body(Str(<<" ", "A", "l", " ">>), Str(<<" ", "a", "@", "b", ".", "c", "\n">>),
          Str(<<" ">> \o Rep("x", MESSAGE_MIN) \o <<" ">>)),          \* 16
     Body(GoodName, Undefined, Str(<<"h", "i">>)),                    \* 17
     Body(Str(Rep("n", NAME_MAX + 1)), Undefined, GoodMessage),       \* 18
     Body(GoodName, GoodEmail, Num)                                   \* 19
  >>

(***************************************************************************)
(* Responses                                                               *)
(***************************************************************************)
NoError == "<absent>"

Response(status, success, message, error) ==
  [status |-> status, success |-> success, message |-> message, error |-> error]

MSG_OK == "Email sent successfully! I will get back to you soon."
MSG_BODY == "Request body must be valid JSON"
MSG_NAME_REQUIRED == "Name is required"
MSG_EMAIL_REQUIRED == "Email is required"
MSG_NAME_SHORT == "Name must be at least 2 characters long"
MSG_NAME_LONG == "Name must be less than 100 characters"
MSG_EMAIL_INVALID == "Please provide a valid email address"
MSG_MESSAGE_REQUIRED == "Message is required"
MSG_MESSAGE_SHORT == "Message must be at least 10 characters long"
MSG_MESSAGE_LONG == "Message must be less than 5000 characters"
MSG_RATE == "Too many requests. Please try again later."
MSG_CONFIG == "Server configuration error. Please try again later."
MSG_AUTH == "Authentication error. Please check Gmail credentials."
MSG_UNAVAILABLE == "Service temporarily unavailable. Please try again later."
MSG_FAILED == "Failed to send email. Please try again later."

SG_MSG_BODY == "Request body must be JSON"
SG_MSG_NAME == "Name must be 2-100 characters"
SG_MSG_EMAIL == "Valid email required"
SG_MSG_MESSAGE == "Message must be 10-5000 characters"
SG_MSG_RATE == "Too many requests. Try again later."
SG_MSG_CONFIG == "Server configuration error"
SG_MSG_UNAVAILABLE == "Email service temporarily unavailable."

ERR_TIMEOUT == "Email send timeout"
SG_ERR_TIMEOUT == "SendGrid timeout"
ERR_CREDENTIALS == "Missing Gmail credentials in environment variables"

(***************************************************************************)
(* Intake: sanitisation and validation of the three fields                 *)
(***************************************************************************)
\* The fields as the nodemailer handler normalises them.
SmtpFields(body) ==
  [name |-> Trim(sanitizeInput(body.name)),
   email |-> ToLowerCase(Trim(sanitizeInput(body.email))),
   message |-> Trim(sanitizeInput(body.message))]

\* The fields as the SendGrid handler normalises them.
SendGridFields(body) ==
  [name |-> sanitizeInput(body.name),
   email |-> ToLowerCase(sanitizeInput(body.email)),
   message |-> sanitizeInput(body.message)]

Fields(variant, body) ==
  IF variant = "smtp" THEN SmtpFields(body) ELSE SendGridFields(body)

SmtpValidateNoNameMax(f) ==
  IF f.name = <<>> THEN MSG_NAME_REQUIRED
  ELSE IF f.email = <<>> THEN MSG_EMAIL_REQUIRED
  ELSE IF Len(f.name) < NAME_MIN THEN MSG_NAME_SHORT
  ELSE IF ~validateEmail(Str(f.email)) THEN MSG_EMAIL_INVALID
  ELSE IF f.message = <<>> THEN MSG_MESSAGE_REQUIRED
  ELSE IF Len(f.message) < MESSAGE_MIN THEN MSG_MESSAGE_SHORT
  ELSE IF Len(f.message) > MESSAGE_MAX THEN MSG_MESSAGE_LONG
  ELSE ""

SmtpValidateFieldByField(f) ==
  IF f.name = <<>> THEN MSG_NAME_REQUIRED
  ELSE IF Len(f.name) < NAME_MIN THEN MSG_NAME_SHORT
  ELSE IF Len(f.name) > NAME_MAX THEN MSG_NAME_LONG
  ELSE IF f.email = <<>> THEN MSG_EMAIL_REQUIRED
  ELSE IF ~validateEmail(Str(f.email)) THEN MSG_EMAIL_INVALID
  ELSE IF f.message = <<>> THEN MSG_MESSAGE_REQUIRED
  ELSE IF Len(f.message) < MESSAGE_MIN THEN MSG_MESSAGE_SHORT
  ELSE IF Len(f.message) > MESSAGE_MAX THEN MSG_MESSAGE_LONG
  ELSE ""

\* The validation chain of the nodemailer handler: the message of the first
\* failing check, or "" when every check passes.
SmtpValidate(f) ==
  IF f.name = <<>> THEN MSG_NAME_REQUIRED
  ELSE IF f.email = <<>> THEN MSG_EMAIL_REQUIRED
  ELSE IF Len(f.name) < NAME_MIN THEN MSG_NAME_SHORT
  ELSE IF Len(f.name) > NAME_MAX THEN MSG_NAME_LONG
  ELSE IF ~validateEmail(Str(f.email)) THEN MSG_EMAIL_INVALID
  ELSE IF f.message = <<>> THEN MSG_MESSAGE_REQUIRED
  ELSE IF Len(f.message) < MESSAGE_MIN THEN MSG_MESSAGE_SHORT
  ELSE IF Len(f.message) > MESSAGE_MAX THEN MSG_MESSAGE_LONG
  ELSE ""

\* The validation chain of the SendGrid handler.
SendGridValidate(f) ==
  IF f.name = <<>> \/ Len(f.name) < NAME_MIN \/ Len(f.name) > NAME_MAX
    THEN SG_MSG_NAME
  ELSE IF ~validateEmail(Str(f.email)) THEN SG_MSG_EMAIL
  ELSE IF f.message = <<>> \/ Len(f.message) < MESSAGE_MIN
          \/ Len(f.message) > MESSAGE_MAX
    THEN SG_MSG_MESSAGE
  ELSE ""

Validate(variant, f) ==
  IF variant = "smtp" THEN SmtpValidate(f) ELSE SendGridValidate(f)

(***************************************************************************)
(* Bounds of the model                                                     *)
(***************************************************************************)
MaxReq == 3          \* requests received in one behaviour of Spec
MaxTicks == 2        \* instants the clock passes through in one behaviour of Spec
MaxPending == 2      \* requests whose provider send is outstanding at once
MaxGateReq == 7      \* requests received in one behaviour of SpecGate
MaxGateTicks == 3    \* instants the clock passes through in SpecGate
MaxIntakeReq == 2    \* requests received in one behaviour of SpecIntake
MaxIntakeTicks == 2  \* instants the clock passes through in SpecIntake
MaxOutcomeReq == 6   \* requests received in one behaviour of SpecOutcome
MaxOutcomeTicks == 2 \* instants the clock passes through in SpecOutcome
MaxLedgerCalls == 3  \* checkRateLimit calls in one behaviour of SpecLedger
MaxLedgerTicks == 3  \* instants the clock passes through in SpecLedger
MaxLegacyReq == 2    \* requests received in one behaviour of SpecLegacy
MaxTextLen == 3      \* length of the short texts given to the helper functions
MaxLiveReq == 2      \* requests received in one behaviour of SpecLive
MaxLiveTicks == 2    \* instants the clock passes through in SpecLive
MaxEmailLen == 5     \* characters of the short addresses in SpecEmail

Variants == {"smtp", "sendgrid"}
ClientIds == {"ip1", "unknown"}
\* <<req.ip, req.connection.remoteAddress>>; "" stands for an absent address
Addresses == {<<"ip1", "ip1">>, <<"", "">>}
GateAddresses == {<<"", "ip1">>}
ErrorCodes == {"EAUTH", "ECONNREFUSED", "ETIMEDOUT", "EOTHER"}
NoCode == "<undefined>"
ErrorMessages == {"m1"}
AllBodies == DOMAIN Bodies
\* One valid and one invalid body.
CoreBodies == {1, 2}
\* Values of the maxRequests parameter of checkRateLimit.
Quotas == {0, 1, MAX_REQUESTS}

VARIABLES
  variant,        \* which handler is deployed: nodemailer or SendGrid
  isDev,          \* process.env.NODE_ENV === 'development'
  credsPresent,   \* the credentials the handler needs are in process.env
  now,            \* Date.now(), relative to the start of the process
  ticks,          \* index of the latest instant the clock has reached
  nextSweep,      \* due time of the setInterval sweep
  rateLimitMap,   \* the Map: identifier -> sequence of timestamps
  transporter,    \* "null" or "built"
  created,        \* calls of nodemailer.createTransport so far
  inflight,       \* bag of the requests whose send or timer is outstanding
  nreq,           \* requests received so far
  answered,       \* responses sent so far
  last,           \* the response the latest step sent, with its request
  gateLog,        \* history: per identifier, the checkRateLimit calls made
  call            \* a helper function applied on its own: name, argument, result

vars == <<variant, isDev, credsPresent, now, ticks, nextSweep, rateLimitMap,
          transporter, created, inflight, nreq, answered, last, gateLog, call>>

env == <<variant, isDev, credsPresent>>

NoCall == [fn |-> "none", arg |-> Undefined, result |-> <<>>]

NoResponse ==
  [ip |-> "", body |-> 0, resp |-> Response(0, FALSE, "", NoError),
   by |-> "none", admitted |-> FALSE, send |-> "none", timer |-> "none",
   code |-> NoCode]

(***************************************************************************)
(* Delivery gate                                                           *)
(***************************************************************************)
\* const clientIP = req.ip || req.connection.remoteAddress || 'unknown'
ClientIP(addr) ==
  IF addr[1] # "" THEN addr[1] ELSE IF addr[2] # "" THEN addr[2] ELSE "unknown"

Recent(times, t, windowMs) == SelectSeq(times, LAMBDA x : t - x < windowMs)

checkRateLimitNoPush(map, identifier, maxRequests, windowMs, t) ==
  LET m1 == IF identifier \in DOMAIN map THEN map ELSE map @@ (identifier :> <<>>)
      recentRequests == Recent(m1[identifier], t, windowMs)
  IN IF Len(recentRequests) >= maxRequests
       THEN [ok |-> FALSE, map |-> m1]
       ELSE [ok |-> TRUE, map |-> [m1 EXCEPT ![identifier] = recentRequests]]

checkRateLimitOffByOne(map, identifier, maxRequests, windowMs, t) ==
  LET m1 == IF identifier \in DOMAIN map THEN map ELSE map @@ (identifier :> <<>>)
      recentRequests == Recent(m1[identifier], t, windowMs)
  IN IF Len(recentRequests) > maxRequests
       THEN [ok |-> FALSE, map |-> m1]
       ELSE [ok |-> TRUE,
             map |-> [m1 EXCEPT ![identifier] = Append(recentRequests, t)]]

checkRateLimitSharedBucket(map, identifier, maxRequests, windowMs, t) ==
  LET m1 == IF identifier \in DOMAIN map THEN map ELSE map @@ (identifier :> <<>>)
      recentRequests == Recent(m1[identifier], t, windowMs)
      others == {k \in DOMAIN m1 : k # identifier /\ Recent(m1[k], t, windowMs) # <<>>}
  IN IF Len(recentRequests) + Cardinality(others) >= maxRequests
       THEN [ok |-> FALSE, map |-> m1]
       ELSE [ok |-> TRUE,
             map |-> [m1 EXCEPT ![identifier] = Append(recentRequests, t)]]

checkRateLimitNoPrune(map, identifier, maxRequests, windowMs, t) ==
  LET m1 == IF identifier \in DOMAIN map THEN map ELSE map @@ (identifier :> <<>>)
      recentRequests == Recent(m1[identifier], t, windowMs)
  IN IF Len(recentRequests) >= maxRequests
       THEN [ok |-> FALSE, map |-> m1]
       ELSE [ok |-> TRUE,
             map |-> [m1 EXCEPT ![identifier] = Append(m1[identifier], t)]]

\* checkRateLimit run at time t on the ledger map: the result and the ledger
\* it leaves.
checkRateLimit(map, identifier, maxRequests, windowMs, t) ==
  LET m1 == IF identifier \in DOMAIN map THEN map ELSE map @@ (identifier :> <<>>)
      recentRequests == Recent(m1[identifier], t, windowMs)
  IN IF Len(recentRequests) >= maxRequests
       THEN [ok |-> FALSE, map |-> m1]
       ELSE [ok |-> TRUE,
             map |-> [m1 EXCEPT ![identifier] = Append(recentRequests, t)]]

SweepMapShortWindow(map, t) ==
  LET keep == {k \in DOMAIN map : Len(Recent(map[k], t, SWEEP_INTERVAL_MS)) # 0}
  IN [k \in keep |-> Recent(map[k], t, SWEEP_INTERVAL_MS)]

SweepMapKeepsEmpty(map, t) ==
  [k \in DOMAIN map |-> Recent(map[k], t, SWEEP_WINDOW_MS)]

\* The body of the setInterval callback.
SweepMap(map, t) ==
  LET keep == {k \in DOMAIN map : Len(Recent(map[k], t, SWEEP_WINDOW_MS)) # 0}
  IN [k \in keep |-> Recent(map[k], t, SWEEP_WINDOW_MS)]

(***************************************************************************)
(* Mail dispatcher                                                         *)
(***************************************************************************)
getTransporterNoCache(tr, creds) ==
  IF ~creds THEN [threw |-> TRUE, transporter |-> tr, built |-> 0]
  ELSE [threw |-> FALSE, transporter |-> "built", built |-> 1]

\* getTransporter: whether it threw, and the cached transporter afterwards.
getTransporter(tr, creds) ==
  IF tr # "null" THEN [threw |-> FALSE, transporter |-> tr, built |-> 0]
  ELSE IF ~creds THEN [threw |-> TRUE, transporter |-> tr, built |-> 0]
  ELSE [threw |-> FALSE, transporter |-> "built", built |-> 1]

TimeoutMs(v) == IF v = "smtp" THEN SMTP_TIMEOUT_MS ELSE SENDGRID_TIMEOUT_MS
TimeoutError(v) == IF v = "smtp" THEN ERR_TIMEOUT ELSE SG_ERR_TIMEOUT

DevError(dev, msg) == IF dev THEN msg ELSE NoError

\* The catch block of the nodemailer handler.
SmtpCatch(dev, code, msg) ==
  IF code = "EAUTH" THEN Response(500, FALSE, MSG_AUTH, DevError(dev, msg))
  ELSE IF code = "ECONNREFUSED" \/ code = "ETIMEDOUT"
    THEN Response(503, FALSE, MSG_UNAVAILABLE, DevError(dev, msg))
  ELSE Response(500, FALSE, MSG_FAILED, DevError(dev, msg))

\* The catch block of the SendGrid handler.
SendGridCatch(dev, code, msg) ==
  Response(503, FALSE, SG_MSG_UNAVAILABLE, DevError(dev, msg))

Catch(v, dev, code, msg) ==
  IF v = "smtp" THEN SmtpCatch(dev, code, msg) ELSE SendGridCatch(dev, code, msg)

(***************************************************************************)
(* The handler up to its first suspension point                            *)
(***************************************************************************)
BodyMessage(v) == IF v = "smtp" THEN MSG_BODY ELSE SG_MSG_BODY
RateMessage(v) == IF v = "smtp" THEN MSG_RATE ELSE SG_MSG_RATE
ConfigMessage(v) == IF v = "smtp" THEN MSG_CONFIG ELSE SG_MSG_CONFIG

\* The 400 message of body b under handler v, "" when b passes validation:
\* the body check, the sanitisation and the validation chain of the handler.
Intake(v, b) ==
  IF ~Bodies[b].isObject THEN BodyMessage(v)
  ELSE Validate(v, Fields(v, Bodies[b]))

\* Intake, tabulated over the handlers and the bodies offered.
IntakeTable == [v \in Variants |-> [b \in AllBodies |-> Intake(v, b)]]

Verdict(v, b) == IntakeTable[v][b]

\* gated: checkRateLimit was called; admitted: it returned true.
Answered(r, map, tr, gated, admittedByGate) ==
  [resp |-> r, map |-> map, transporter |-> tr, built |-> 0,
   dispatched |-> FALSE, gated |-> gated, admitted |-> admittedByGate]

SyncNoConfigCheck(v, dev, creds, b, ip, map, tr, t) ==
  LET verdict == Verdict(v, b)
      rl == checkRateLimit(map, ip, MAX_REQUESTS, WINDOW_MS, t)
      gt == IF v = "smtp" THEN getTransporter(tr, creds)
            ELSE [threw |-> FALSE, transporter |-> tr, built |-> 0]
  IN IF verdict # ""
       THEN Answered(Response(400, FALSE, verdict, NoError), map, tr,
                     FALSE, FALSE)
     ELSE IF ~rl.ok
       THEN Answered(Response(429, FALSE, RateMessage(v), NoError), rl.map, tr,
                     TRUE, FALSE)
     ELSE IF gt.threw
       THEN Answered(Catch(v, dev, NoCode, ERR_CREDENTIALS), rl.map, tr, TRUE, TRUE)
     ELSE [resp |-> Response(0, FALSE, "", NoError), map |-> rl.map,
           transporter |-> gt.transporter, built |-> gt.built,
           dispatched |-> TRUE, gated |-> TRUE, admitted |-> TRUE]

SyncGateFirst(v, dev, creds, b, ip, map, tr, t) ==
  LET verdict == Verdict(v, b)
      rl == checkRateLimit(map, ip, MAX_REQUESTS, WINDOW_MS, t)
      gt == IF v = "smtp" THEN getTransporter(tr, creds)
            ELSE [threw |-> FALSE, transporter |-> tr, built |-> 0]
  IN IF ~rl.ok
       THEN Answered(Response(429, FALSE, RateMessage(v), NoError), rl.map, tr,
                     TRUE, FALSE)
     ELSE IF verdict # ""
       THEN Answered(Response(400, FALSE, verdict, NoError), rl.map, tr,
                     TRUE, TRUE)
     ELSE IF ~creds
       THEN Answered(Response(500, FALSE, ConfigMessage(v), NoError), rl.map, tr,
                     TRUE, TRUE)
     ELSE IF gt.threw
       THEN Answered(Catch(v, dev, NoCode, ERR_CREDENTIALS), rl.map, tr, TRUE, TRUE)
     ELSE [resp |-> Response(0, FALSE, "", NoError), map |-> rl.map,
           transporter |-> gt.transporter, built |-> gt.built,
           dispatched |-> TRUE, gated |-> TRUE, admitted |-> TRUE]

\* The synchronous prefix of router.post('/send-email'): everything from the
\* entry of the handler to its return or to the await of Promise.race.
Sync(v, dev, creds, b, ip, map, tr, t) ==
  LET verdict == Verdict(v, b)
      rl == checkRateLimit(map, ip, MAX_REQUESTS, WINDOW_MS, t)
      gt == IF v = "smtp" THEN getTransporter(tr, creds)
            ELSE [threw |-> FALSE, transporter |-> tr, built |-> 0]
  IN IF verdict # ""
       THEN Answered(Response(400, FALSE, verdict, NoError), map, tr,
                     FALSE, FALSE)
     ELSE IF ~rl.ok
       THEN Answered(Response(429, FALSE, RateMessage(v), NoError), rl.map, tr,
                     TRUE, FALSE)
     ELSE IF ~creds
       THEN Answered(Response(500, FALSE, ConfigMessage(v), NoError), rl.map, tr,
                     TRUE, TRUE)
     ELSE IF gt.threw
       THEN Answered(Catch(v, dev, NoCode, ERR_CREDENTIALS), rl.map, tr, TRUE, TRUE)
     ELSE [resp |-> Response(0, FALSE, "", NoError), map |-> rl.map,
           transporter |-> gt.transporter, built |-> gt.built,
           dispatched |-> TRUE, gated |-> TRUE, admitted |-> TRUE]

RaceNeverSettled(slot) == FALSE

\* Promise.race has already settled for the request in this slot, so its
\* handler is no longer waiting.
RaceSettled(slot) == slot.pc # "await"

\* A request is forgotten once its send has settled and its timer has fired.
Finished(r) == r.pc = "done" /\ r.send # "pending" /\ r.timer # "armed"

Live == BagToSet(inflight)
Replace(r, q) ==
  (inflight (-) SetToBag({r})) (+) (IF Finished(q) THEN EmptyBag ELSE SetToBag({q}))

\* Requests whose provider send has not settled.
Sending == {r \in Live : r.send = "pending"}
NumSending == BagCardinality([r \in Sending |-> CopiesIn(r, inflight)])

Min(S) == CHOOSE x \in S : \A y \in S : x <= y

Init ==
  /\ variant \in Variants
  /\ isDev \in BOOLEAN
  /\ credsPresent \in BOOLEAN
  /\ now = 0
  /\ ticks = 0
  /\ nextSweep = SWEEP_INTERVAL_MS
  /\ rateLimitMap = << >>
  /\ transporter = "null"
  /\ created = 0
  /\ inflight = EmptyBag
  /\ nreq = 0
  /\ answered = 0
  /\ last = NoResponse
  /\ gateLog = [c \in ClientIds |-> <<>>]
  /\ call = NoCall

\* The process started with NODE_ENV other than 'development'.
InitProduction == Init /\ isDev = FALSE

\* A request arrives and its handler runs to its return or to its await.
HandleRequest(addr, b) ==
  LET ip == ClientIP(addr)
      seen == IF ip \in DOMAIN rateLimitMap
                THEN Len(Recent(rateLimitMap[ip], now, WINDOW_MS)) ELSE 0
      r == Sync(variant, isDev, credsPresent, b, ip, rateLimitMap, transporter, now)
  IN /\ r.dispatched => NumSending < MaxPending
     /\ rateLimitMap' = r.map
     /\ transporter' = r.transporter
     /\ created' = created + r.built
     /\ nreq' = nreq + 1
     /\ gateLog' = IF r.gated
          THEN [gateLog EXCEPT ![ip] =
                  Append(@, [t |-> now, seen |-> seen, ok |-> r.admitted])]
          ELSE gateLog
     /\ IF r.dispatched
          THEN /\ inflight' = inflight (+) SetToBag({
                    [pc |-> "await", ip |-> ip, body |-> b, send |-> "pending",
                     sendCalls |-> 1, timer |-> "armed",
                     deadline |-> now + TimeoutMs(variant), nresp |-> 0]})
               /\ answered' = answered
               /\ last' = NoResponse
          ELSE /\ answered' = answered + 1
               /\ last' = [ip |-> ip, body |-> b, resp |-> r.resp, by |-> "handler",
                           admitted |-> r.admitted, send |-> "none",
                           timer |-> "none", code |-> NoCode]
               /\ UNCHANGED inflight
     /\ UNCHANGED <<env, call, now, ticks, nextSweep>>

SettleLoserResponds(r, q, resp, by, code) ==
  /\ inflight' = Replace(r, [q EXCEPT !.pc = "done", !.nresp = @ + 1])
  /\ answered' = answered + 1
  /\ last' = [ip |-> q.ip, body |-> q.body, resp |-> resp, by |-> by,
              admitted |-> TRUE, send |-> q.send, timer |-> q.timer,
              code |-> code]

\* One settlement of the race of request r: q is r after the event, by says
\* what settled ("fulfilled", "rejected" or "timer"), and resp is the response
\* the handler of r sends if it is still waiting.
Settle(r, q, resp, by, code) ==
  IF RaceSettled(r)
    THEN /\ inflight' = Replace(r, q)
         /\ answered' = answered
         /\ last' = NoResponse
    ELSE /\ inflight' = Replace(r, [q EXCEPT !.pc = "done", !.nresp = @ + 1])
         /\ answered' = answered + 1
         /\ last' = [ip |-> q.ip, body |-> q.body, resp |-> resp, by |-> by,
                     admitted |-> TRUE, send |-> q.send, timer |-> q.timer,
                     code |-> code]

\* emailTransporter.sendMail (sgMail.send) fulfils.
SendFulfil(r) ==
  /\ r.send = "pending"
  /\ Settle(r, [r EXCEPT !.send = "settled"],
            Response(200, TRUE, MSG_OK, NoError), "fulfilled", NoCode)
  /\ UNCHANGED <<env, call, now, ticks, nextSweep, rateLimitMap, transporter,
                 created, nreq, gateLog>>

SendRejectRetry(r, code, msg) ==
  /\ r.send = "pending"
  /\ inflight' = Replace(r, [r EXCEPT !.sendCalls = @ + 1])
  /\ last' = NoResponse
  /\ UNCHANGED <<env, call, now, ticks, nextSweep, rateLimitMap, transporter,
                 created, nreq, answered, gateLog>>

SendRejectRefunds(r, code, msg) ==
  /\ r.send = "pending"
  /\ Settle(r, [r EXCEPT !.send = "settled"],
            Catch(variant, isDev, code, msg), "rejected", code)
  /\ rateLimitMap' = IF r.ip \in DOMAIN rateLimitMap /\ rateLimitMap[r.ip] # <<>>
                       THEN [rateLimitMap EXCEPT ![r.ip] = SubSeq(@, 1, Len(@) - 1)]
                       ELSE rateLimitMap
  /\ UNCHANGED <<env, call, now, ticks, nextSweep, transporter,
                 created, nreq, gateLog>>

\* emailTransporter.sendMail (sgMail.send) rejects with an error.
SendReject(r, code, msg) ==
  /\ r.send = "pending"
  /\ Settle(r, [r EXCEPT !.send = "settled"],
            Catch(variant, isDev, code, msg), "rejected", code)
  /\ UNCHANGED <<env, call, now, ticks, nextSweep, rateLimitMap, transporter,
                 created, nreq, gateLog>>

TimerFireLost(r) ==
  /\ r.timer = "armed"
  /\ now >= r.deadline
  /\ inflight' = Replace(r, [r EXCEPT !.timer = "fired", !.deadline = 0])
  /\ last' = NoResponse
  /\ UNCHANGED <<env, call, now, ticks, nextSweep, rateLimitMap, transporter,
                 created, nreq, answered, gateLog>>

\* The setTimeout callback of the race runs: reject(new Error('... timeout')).
TimerFire(r) ==
  /\ r.timer = "armed"
  /\ now >= r.deadline
  /\ Settle(r, [r EXCEPT !.timer = "fired", !.deadline = 0],
            Catch(variant, isDev, NoCode, TimeoutError(variant)), "timer", NoCode)
  /\ UNCHANGED <<env, call, now, ticks, nextSweep, rateLimitMap, transporter,
                 created, nreq, gateLog>>

\* The setInterval callback: prune the ledger.
Sweep ==
  /\ now >= nextSweep
  /\ rateLimitMap' = SweepMap(rateLimitMap, now)
  /\ nextSweep' = now + SWEEP_INTERVAL_MS
  /\ last' = NoResponse
  /\ UNCHANGED <<env, call, now, ticks, transporter, created, inflight, nreq, answered,
                 gateLog>>

ArmedDeadlines == {r.deadline : r \in {q \in Live : q.timer = "armed"}}

\* The instants at which the clock is observed: in every window, its start,
\* the instant a timeout armed at its start is due, and its last millisecond.
Instant(k) ==
  LET offsets == <<0, TimeoutMs(variant), WINDOW_MS - 1>>
  IN (k \div 3) * WINDOW_MS + offsets[(k % 3) + 1]

Max(a, b) == IF a >= b THEN a ELSE b

\* Time passes to the next instant; a timeout timer that is due runs first.
Tick ==
  /\ \A d \in ArmedDeadlines : now < d
  /\ now' = Max(now, Instant(ticks + 1))
  /\ ticks' = ticks + 1
  /\ last' = NoResponse
  /\ UNCHANGED <<env, call, nextSweep, rateLimitMap, transporter, created, inflight,
                 nreq, answered, gateLog>>

\* Time passes until the next timeout timer is due.
TickToTimer ==
  /\ ArmedDeadlines # {}
  /\ \A d \in ArmedDeadlines : now < d
  /\ now' = Min(ArmedDeadlines)
  /\ last' = NoResponse
  /\ UNCHANGED <<env, call, ticks, nextSweep, rateLimitMap, transporter, created,
                 inflight, nreq, answered, gateLog>>

\* The life of a few requests under every configuration and provider outcome.
Next ==
  \/ \E addr \in Addresses, b \in CoreBodies : nreq < MaxReq /\ HandleRequest(addr, b)
  \/ \E r \in Live : SendFulfil(r)
  \/ \E r \in Live, code \in ErrorCodes, msg \in ErrorMessages : SendReject(r, code, msg)
  \/ \E r \in Live : TimerFire(r)
  \/ Sweep
  \/ ticks < MaxTicks /\ Tick

Spec == Init /\ [][Next]_vars

\* Intake: every body of the table is offered.
NextIntake ==
  \/ \E b \in AllBodies : nreq < MaxIntakeReq /\ HandleRequest(<<"ip1", "">>, b)
  \/ \E r \in Live : SendFulfil(r)
  \/ \E r \in Live, msg \in ErrorMessages : SendReject(r, "EOTHER", msg)
  \/ \E r \in Live : TimerFire(r)
  \/ Sweep
  \/ ticks < MaxIntakeTicks /\ Tick

SpecIntake == InitProduction /\ [][NextIntake]_vars

\* The gate under load: many requests of one client, in production mode,
\* each dispatched send ending by fulfilment or by its timeout.
NextGate ==
  \/ \E addr \in GateAddresses : nreq < MaxGateReq /\ HandleRequest(addr, 1)
  \/ \E r \in Live : SendFulfil(r)
  \/ \E r \in Live : TimerFire(r)
  \/ Sweep
  \/ ticks < MaxGateTicks /\ Tick

SpecGate == InitProduction /\ [][NextGate]_vars

\* Every outcome of a request: rejected, denied, misconfigured, failed, timed
\* out, delivered.
NextOutcome ==
  \/ \E addr \in GateAddresses, b \in CoreBodies :
        nreq < MaxOutcomeReq /\ HandleRequest(addr, b)
  \/ \E r \in Live : SendFulfil(r)
  \/ \E r \in Live, code \in {"EAUTH", "ETIMEDOUT"}, msg \in ErrorMessages :
        SendReject(r, code, msg)
  \/ \E r \in Live : TimerFire(r)
  \/ Sweep
  \/ ticks < MaxOutcomeTicks /\ Tick

SpecOutcome == Init /\ [][NextOutcome]_vars

\* Progress: the event loop runs a due timer, and time does not stand still.
NextLive ==
  \/ \E addr \in Addresses, b \in CoreBodies :
        nreq < MaxLiveReq /\ HandleRequest(addr, b)
  \/ \E r \in Live : SendFulfil(r)
  \/ \E r \in Live, msg \in ErrorMessages : SendReject(r, "EAUTH", msg)
  \/ \E r \in Live : TimerFire(r)
  \/ Sweep
  \/ ticks < MaxLiveTicks /\ Tick
  \/ ticks >= MaxLiveTicks /\ TickToTimer

SpecLive ==
  /\ Init
  /\ [][NextLive]_vars
  /\ WF_vars(\E r \in Live : TimerFire(r))
  /\ WF_vars(ticks < MaxLiveTicks /\ Tick)
  /\ WF_vars(ticks >= MaxLiveTicks /\ TickToTimer)

(***************************************************************************)
(* The rate limiter on its own                                             *)
(***************************************************************************)
InitLedger == Init /\ variant = "smtp" /\ isDev = FALSE /\ credsPresent

NumCalls(log) == Len(log["ip1"]) + Len(log["unknown"])

\* checkRateLimit(identifier, maxRequests, 3600000) is called at time now.
CallCheckRateLimit(identifier, maxRequests) ==
  LET rl == checkRateLimit(rateLimitMap, identifier, maxRequests, WINDOW_MS, now)
      seen == IF identifier \in DOMAIN rateLimitMap
                THEN Len(Recent(rateLimitMap[identifier], now, WINDOW_MS)) ELSE 0
  IN /\ rateLimitMap' = rl.map
     /\ gateLog' = [gateLog EXCEPT ![identifier] =
                      Append(@, [t |-> now, seen |-> seen, ok |-> rl.ok,
                                 max |-> maxRequests, n |-> NumCalls(gateLog) + 1])]
     /\ last' = NoResponse
     /\ UNCHANGED <<env, call, now, ticks, nextSweep, transporter, created, inflight,
                    nreq, answered>>

\* Calls of the rate limiter for two identifiers, sweeps and the clock.
NextLedger ==
  \/ \E identifier \in ClientIds, maxRequests \in Quotas :
        NumCalls(gateLog) < MaxLedgerCalls /\ CallCheckRateLimit(identifier, maxRequests)
  \/ Sweep
  \/ ticks < MaxLedgerTicks /\ Tick

SpecLedger == InitLedger /\ [][NextLedger]_vars

(***************************************************************************)
(* The earliest handler of the file: no sanitisation, no rate limiter, no  *)
(* timeout, a transporter per request                                      *)
(***************************************************************************)
LEGACY_MSG_FIELDS == "Please provide name, email, and message"
LEGACY_MSG_CONFIG == "Server configuration error: Gmail credentials not set"
ERR_NOT_A_FUNCTION == "message.trim is not a function"
DiagnosticMessages == {"m1", "m2"}

\* validateEmail of that handler: the regular expression on the value as given.
LegacyValidateEmail(email) == email.t = "string" /\ EmailRegexTest(email.v)

\* Its validation: the 400 message, "" when the body passes, "throw" when
\* message.trim() raises a TypeError.
LegacyValidate(body) ==
  IF ~Truthy(body.name) \/ ~Truthy(body.email) \/ ~Truthy(body.message)
    THEN LEGACY_MSG_FIELDS
  ELSE IF ~LegacyValidateEmail(body.email) THEN MSG_EMAIL_INVALID
  ELSE IF body.message.t # "string" THEN "throw"
  ELSE IF Len(Trim(body.message.v)) < MESSAGE_MIN THEN MSG_MESSAGE_SHORT
  ELSE ""

\* Its catch block.
LegacyCatch(code, msg) ==
  [status |-> 500, success |-> FALSE, message |-> MSG_FAILED, error |-> NoError,
   errorDetails |-> msg, errorCode |-> code]

LegacyBodies == {b \in AllBodies : Bodies[b].isObject}

InitLegacy ==
  /\ variant = "legacy"
  /\ isDev \in BOOLEAN
  /\ credsPresent \in BOOLEAN
  /\ now = 0
  /\ ticks = 0
  /\ nextSweep = SWEEP_INTERVAL_MS
  /\ rateLimitMap = << >>
  /\ transporter = "null"
  /\ created = 0
  /\ inflight = EmptyBag
  /\ nreq = 0
  /\ answered = 0
  /\ last = NoResponse
  /\ gateLog = [c \in ClientIds |-> <<>>]
  /\ call = NoCall

\* A request arrives and the handler runs to its return or to its await.
LegacyHandleRequest(b) ==
  LET verdict == LegacyValidate(Bodies[b])
      resp == IF verdict = "throw" THEN LegacyCatch(NoCode, ERR_NOT_A_FUNCTION)
              ELSE IF verdict # "" THEN Response(400, FALSE, verdict, NoError)
              ELSE Response(500, FALSE, LEGACY_MSG_CONFIG, NoError)
      dispatched == verdict = "" /\ credsPresent
  IN /\ dispatched => NumSending < MaxPending
     /\ nreq' = nreq + 1
     /\ IF dispatched
          THEN /\ created' = created + 1
               /\ inflight' = inflight (+) SetToBag({
                    [pc |-> "await", ip |-> "", body |-> b, send |-> "pending",
                     sendCalls |-> 1, timer |-> "none", deadline |-> 0,
                     nresp |-> 0]})
               /\ answered' = answered
               /\ last' = NoResponse
          ELSE /\ answered' = answered + 1
               /\ last' = [ip |-> "", body |-> b, resp |-> resp, by |-> "handler",
                           admitted |-> FALSE, send |-> "none",
                           timer |-> "none", code |-> NoCode]
               /\ UNCHANGED <<created, inflight>>
     /\ UNCHANGED <<env, call, now, ticks, nextSweep, rateLimitMap, transporter, gateLog>>

\* transporter.sendMail fulfils.
LegacySendFulfil(r) ==
  /\ r.send = "pending"
  /\ Settle(r, [r EXCEPT !.send = "settled"],
            Response(200, TRUE, MSG_OK, NoError), "fulfilled", NoCode)
  /\ UNCHANGED <<env, call, now, ticks, nextSweep, rateLimitMap, transporter,
                 created, nreq, gateLog>>

\* transporter.sendMail rejects with an error.
LegacySendReject(r, code, msg) ==
  /\ r.send = "pending"
  /\ Settle(r, [r EXCEPT !.send = "settled"],
            LegacyCatch(code, msg), "rejected", code)
  /\ UNCHANGED <<env, call, now, ticks, nextSweep, rateLimitMap, transporter,
                 created, nreq, gateLog>>

NextLegacy ==
  \/ \E b \in LegacyBodies : nreq < MaxLegacyReq /\ LegacyHandleRequest(b)
  \/ \E r \in Live : LegacySendFulfil(r)
  \/ \E r \in Live, code \in ErrorCodes \cup {NoCode}, msg \in DiagnosticMessages :
        LegacySendReject(r, code, msg)

SpecLegacy == InitLegacy /\ [][NextLegacy]_vars

(***************************************************************************)
(* The helper functions on their own                                       *)
(***************************************************************************)
Alphabet == {"&", "<", ">", "\"", "'", "a", " ", "\n", ";"}
ShortTexts == UNION {[1..n -> Alphabet] : n \in 0..MaxTextLen}
Pads == {<<>>, <<" ">>, <<"a">>, <<" ", "a">>, <<"a", " ">>}
\* Texts around the truncation limit of sanitizeInput.
LongTexts == {pre \o Rep("x", SANITIZE_MAX - 1) \o post : pre \in Pads, post \in Pads}
TextInputs == {Undefined, Num} \cup {Str(s) : s \in ShortTexts \cup LongTexts}

InitText ==
  /\ variant = "smtp"
  /\ isDev = FALSE
  /\ credsPresent = TRUE
  /\ now = 0
  /\ ticks = 0
  /\ nextSweep = SWEEP_INTERVAL_MS
  /\ rateLimitMap = << >>
  /\ transporter = "null"
  /\ created = 0
  /\ inflight = EmptyBag
  /\ nreq = 0
  /\ answered = 0
  /\ last = NoResponse
  /\ gateLog = [c \in ClientIds |-> <<>>]
  /\ call \in {[fn |-> "none", arg |-> x, result |-> <<>>] : x \in TextInputs}

Rest == <<env, now, ticks, nextSweep, rateLimitMap, transporter, created, inflight,
          nreq, answered, last, gateLog>>

\* sanitizeInput(arg)
ApplySanitizeInput ==
  /\ call.fn = "none"
  /\ call' = [fn |-> "sanitizeInput", arg |-> call.arg,
              result |-> sanitizeInput(call.arg)]
  /\ UNCHANGED Rest

\* sanitizeInput(sanitizeInput(arg)); once keeps the inner result.
ApplySanitizeInputAgain ==
  /\ call.fn = "sanitizeInput"
  /\ call' = [fn |-> "sanitizeInput twice", arg |-> call.arg, once |-> call.result,
              result |-> sanitizeInput(Str(call.result))]
  /\ UNCHANGED Rest

\* escapeHtml(arg), for a short text
ApplyEscapeHtml ==
  /\ call.fn = "none" /\ call.arg.t = "string" /\ Len(call.arg.v) <= MaxTextLen
  /\ call' = [fn |-> "escapeHtml", arg |-> call.arg, result |-> escapeHtml(call.arg.v)]
  /\ UNCHANGED Rest

\* The mail built for name arg, email "e" + arg and message arg + "\n" + arg.
BuildMailOptions ==
  /\ call.fn = "none" /\ call.arg.t = "string" /\ Len(call.arg.v) <= MaxTextLen
  /\ call' = [fn |-> "mailOptions", arg |-> call.arg,
              result |-> MailOptions(call.arg.v, <<"e">> \o call.arg.v,
                                     call.arg.v \o <<"\n">> \o call.arg.v)]
  /\ UNCHANGED Rest

NextText ==
  \/ ApplySanitizeInput
  \/ ApplySanitizeInputAgain
  \/ ApplyEscapeHtml
  \/ BuildMailOptions

SpecText == InitText /\ [][NextText]_vars


(***************************************************************************)
(* validateEmail on its own                                                *)
(***************************************************************************)
EmailAlphabet == {"a", "A", "@", ".", " "}
ShortEmails == UNION {[1..n -> EmailAlphabet] : n \in 0..MaxEmailLen}
EmailPads == {<<>>, <<" ">>, <<"\n", " ">>}
\* Addresses of EMAIL_MAX - 1, EMAIL_MAX and EMAIL_MAX + 1 characters, bare and
\* between white space.
LongEmails ==
  {pre \o <<"a", "@", "b", ".">> \o Rep("c", EMAIL_MAX - k) \o post :
     pre \in EmailPads, post \in EmailPads, k \in {3, 4, 5}}
EmailInputs == {Undefined, Num} \cup {Str(s) : s \in ShortEmails \cup LongEmails}

InitEmail ==
  /\ variant = "smtp"
  /\ isDev = FALSE
  /\ credsPresent = TRUE
  /\ now = 0
  /\ ticks = 0
  /\ nextSweep = SWEEP_INTERVAL_MS
  /\ rateLimitMap = << >>
  /\ transporter = "null"
  /\ created = 0
  /\ inflight = EmptyBag
  /\ nreq = 0
  /\ answered = 0
  /\ last = NoResponse
  /\ gateLog = [c \in ClientIds |-> <<>>]
  /\ call \in {[fn |-> "none", arg |-> x, result |-> <<>>] : x \in EmailInputs}

\* validateEmail(arg)
ApplyValidateEmail ==
  /\ call.fn = "none"
  /\ call' = [fn |-> "validateEmail", arg |-> call.arg,
              result |-> validateEmail(call.arg)]
  /\ UNCHANGED Rest

NextEmail == ApplyValidateEmail

SpecEmail == InitEmail /\ [][NextEmail]_vars
(***************************************************************************)
(* Delivery gate: properties                                               *)
(***************************************************************************)
\* The checkRateLimit calls of identifier id that returned true, in order.
Admissions(id) == SelectSeq(gateLog[id], LAMBDA e : e.ok)

\* The timestamps the ledger holds for id (none when id has no key).
Recorded(id) == IF id \in DOMAIN rateLimitMap THEN rateLimitMap[id] ELSE <<>>

\* Number of the entries of sequence s whose time lies in [from, from + len).
CountWithin(s, from, len) ==
  Cardinality({j \in 1..Len(s) : s[j].t >= from /\ s[j].t - from < len})

\* C1: for every client identifier and every interleaving of requests, at
\* most 5 requests are admitted with admission times inside any rolling
\* window of 3600000 ms; the count an admission was granted on includes every
\* earlier admission of its window, so no two requests are admitted on the
\* same pre-update count, and the ledger holds exactly the admissions of the
\* current window.
C1_AtMostFivePerWindow ==
  \A id \in ClientIds :
    LET a == Admissions(id)
    IN /\ \A i \in 1..Len(a) : CountWithin(a, a[i].t, WINDOW_MS) <= MAX_REQUESTS
       /\ \A j \in 1..Len(a) :
            a[j].seen = Cardinality({i \in 1..(j - 1) : a[j].t - a[i].t < WINDOW_MS})
       /\ Recent(Recorded(id), now, WINDOW_MS)
            = Recent([i \in 1..Len(a) |-> a[i].t], now, WINDOW_MS)

\* Five requests of one client admitted in one window, two of them with their
\* send still outstanding, and a further request of that client just denied.
C1_Witness ==
  /\ NumSending = 2
  /\ last.by = "handler" /\ last.resp.status = 429
  /\ CountWithin(Admissions(last.ip), now - WINDOW_MS + 1, WINDOW_MS) = MAX_REQUESTS

\* C2: checkRateLimit called at time now returns true exactly when fewer than
\* maxRequests recorded timestamps t of the identifier satisfy
\* now - t < windowMs; a call was allowed exactly when fewer than 5 earlier
\* allowed calls lay within the window before it; a denied request is the one
\* answered with HTTP 429.
C2_AllowedIffBelowMax ==
  /\ \A id \in ClientIds, maxRequests \in {1, 2, MAX_REQUESTS},
        windowMs \in {1, SMTP_TIMEOUT_MS, WINDOW_MS} :
       checkRateLimit(rateLimitMap, id, maxRequests, windowMs, now).ok
         <=> Cardinality({i \in 1..Len(Recorded(id)) :
                            now - Recorded(id)[i] < windowMs}) < maxRequests
  /\ \A id \in ClientIds :
       LET g == gateLog[id]
       IN \A k \in 1..Len(g) :
            g[k].ok <=>
              Cardinality({j \in 1..(k - 1) :
                             g[j].ok /\ g[k].t - g[j].t < WINDOW_MS}) < MAX_REQUESTS
  /\ (last.by = "handler" /\ last.resp.status = 429)
       <=> /\ last.by = "handler"
           /\ Verdict(variant, last.body) = ""
           /\ LET g == gateLog[last.ip] IN Len(g) > 0 /\ ~g[Len(g)].ok

\* Six calls for one identifier inside the window returned
\* true,true,true,true,true,false and a seventh, made when the window had
\* elapsed, returned true.
C2_Witness ==
  LET g == gateLog["ip1"]
  IN /\ Len(g) = 7
     /\ [k \in 1..7 |-> g[k].ok] = <<TRUE, TRUE, TRUE, TRUE, TRUE, FALSE, TRUE>>
     /\ g[6].t - g[1].t < WINDOW_MS
     /\ g[7].t - g[5].t >= WINDOW_MS

(***************************************************************************)
(* Intake: properties                                                      *)
(***************************************************************************)
\* The three values the deployed handler derives from body b and would hand
\* to the provider.
Submitted(b) == Fields(variant, Bodies[b])

\* name, email and message are all present and within bounds.
WithinBounds(f) ==
  /\ f.name # <<>> /\ Len(f.name) >= 2 /\ Len(f.name) <= 100
  /\ f.email # <<>> /\ validateEmail(Str(f.email))
  /\ f.message # <<>> /\ Len(f.message) >= 10 /\ Len(f.message) <= 5000

Acceptable(b) == Bodies[b].isObject /\ WithinBounds(Submitted(b))

\* C3: the provider send is invoked only for a submission whose name, email
\* and message are all present and within bounds; a submission failing any
\* check is answered with HTTP 400 and no send is made for it.
C3_SendOnlyIfValid ==
  /\ \A r \in Live : Acceptable(r.body)
  /\ last.send # "none" => Acceptable(last.body)
  /\ (last.by # "none" /\ ~Acceptable(last.body)) =>
       /\ last.by = "handler" /\ last.send = "none"
       /\ last.resp.status = 400 /\ ~last.resp.success

\* A submission at the bounds (padded fields, a name of 100 characters) has
\* its send outstanding while an invalid submission has just got its 400.
C3_Witness ==
  /\ \E r \in Live : r.body \in {8, 16} /\ r.send = "pending" /\ r.sendCalls = 1
  /\ last.by = "handler" /\ last.resp.status = 400 /\ ~Acceptable(last.body)

\* The single checks of the validation, and whether fields f fail them.
Fails(check, f) ==
  CASE check = "name presence" -> f.name = <<>>
    [] check = "name length" -> Len(f.name) < 2 \/ Len(f.name) > 100
    [] check = "email presence" -> f.email = <<>>
    [] check = "email format" -> ~validateEmail(Str(f.email))
    [] check = "message presence" -> f.message = <<>>
    [] check = "message length" -> Len(f.message) < 10 \/ Len(f.message) > 5000

\* The reason handler v gives for a failing check.
Reason(v, check, f) ==
  IF v = "smtp"
    THEN CASE check = "name presence" -> MSG_NAME_REQUIRED
           [] check = "name length" ->
                IF Len(f.name) < 2 THEN MSG_NAME_SHORT ELSE MSG_NAME_LONG
           [] check = "email presence" -> MSG_EMAIL_REQUIRED
           [] check = "email format" -> MSG_EMAIL_INVALID
           [] check = "message presence" -> MSG_MESSAGE_REQUIRED
           [] check = "message length" ->
                IF Len(f.message) < 10 THEN MSG_MESSAGE_SHORT ELSE MSG_MESSAGE_LONG
    ELSE CASE check \in {"name presence", "name length"} -> SG_MSG_NAME
           [] check \in {"email presence", "email format"} -> SG_MSG_EMAIL
           [] check \in {"message presence", "message length"} -> SG_MSG_MESSAGE

\* The reason of the first check of the sequence order that f fails.
FirstFailing(v, order, f) ==
  LET failing == {i \in 1..Len(order) : Fails(order[i], f)}
  IN IF failing = {} THEN "" ELSE Reason(v, order[Min(failing)], f)

FieldByField ==
  <<"name presence", "name length", "email presence", "email format",
    "message presence", "message length">>

PresenceOfNameAndEmailFirst ==
  <<"name presence", "email presence", "name length", "email format",
    "message presence", "message length">>

\* A 400 sent for the fields of a body (not for a body that is no object).
FieldRejection ==
  last.by = "handler" /\ last.resp.status = 400 /\ Bodies[last.body].isObject

\* C4 as stated: the reason of a 400 is that of the first failing check in
\* the order name presence, name length, email presence, email format,
\* message presence, message length.
C4_FieldByFieldOrder ==
  FieldRejection =>
    last.resp.message = FirstFailing(variant, FieldByField, Submitted(last.body))

\* C4 as amended: the nodemailer handler reports the first failing check in
\* the order name presence, email presence, name length, email format,
\* message presence, message length; the SendGrid handler, which has one
\* reason per field, reports the first failing field in the order name,
\* email, message.
C4_ReasonOfFirstFailingCheck ==
  FieldRejection =>
    last.resp.message =
      FirstFailing(variant,
                   IF variant = "smtp" THEN PresenceOfNameAndEmailFirst
                   ELSE FieldByField,
                   Submitted(last.body))

\* The nodemailer handler has answered a submission that fails several checks
\* at once, among them the name length and the email presence.
C4_Witness ==
  /\ variant = "smtp" /\ FieldRejection
  /\ Fails("name length", Submitted(last.body))
  /\ Fails("email presence", Submitted(last.body))
  /\ ~Fails("name presence", Submitted(last.body))
  /\ last.resp.message = MSG_EMAIL_REQUIRED

(***************************************************************************)
(* Dispatch and response: properties                                       *)
(***************************************************************************)
\* The handlers that are still waiting at their await.
Awaiting == {r \in Live : r.pc = "await"}
NumAwaiting == BagCardinality([r \in Awaiting |-> CopiesIn(r, inflight)])

RECURSIVE SendCallsOf(_, _)
\* Calls of the provider send made for the requests of set S in bag B.
SendCallsOf(S, B) ==
  IF S = {} THEN 0
  ELSE LET r == CHOOSE x \in S : TRUE
       IN CopiesIn(r, B) * r.sendCalls + SendCallsOf(S \ {r}, B)

\* Calls of the provider send made for the requests still known.
TotalSendCalls == SendCallsOf(Live, inflight)

TemporarilyUnavailable == {MSG_UNAVAILABLE, SG_MSG_UNAVAILABLE}

\* C5: a valid, admitted request whose send does not settle before its
\* timeout timer fires is answered with HTTP 503 and the
\* temporarily-unavailable message.
C5_TimeoutGives503 ==
  last.by = "timer" =>
    /\ last.resp.status = 503
    /\ last.resp.message \in TemporarilyUnavailable
    /\ ~last.resp.success

\* C6: a failure of the send is answered by its class: EAUTH with HTTP 500
\* and the authentication-error message, ECONNREFUSED or ETIMEDOUT with HTTP
\* 503 and the temporarily-unavailable message, any other failure with HTTP
\* 500 and the generic fallback message; always with success=false.
C6_FailureMappedByClass ==
  last.by = "rejected" =>
    /\ ~last.resp.success
    /\ IF last.code = "EAUTH"
         THEN last.resp.status = 500 /\ last.resp.message = MSG_AUTH
       ELSE IF last.code \in {"ECONNREFUSED", "ETIMEDOUT"}
         THEN last.resp.status = 503 /\ last.resp.message \in TemporarilyUnavailable
       ELSE last.resp.status = 500 /\ last.resp.message = MSG_FAILED

\* C7: a response is HTTP 200 with success=true only if the submission passed
\* validation, the rate limiter admitted it, the credentials were present and
\* the send fulfilled before the timeout timer fired; every other response
\* has success=false and a status among 400, 429, 500, 503.
C7_SuccessOnlyIfDelivered ==
  last.by # "none" =>
    IF last.resp.success \/ last.resp.status = 200
      THEN /\ last.resp.success /\ last.resp.status = 200
           /\ Acceptable(last.body)
           /\ last.admitted /\ \E k \in 1..Len(gateLog[last.ip]) : gateLog[last.ip][k].ok
           /\ credsPresent
           /\ last.by = "fulfilled" /\ last.timer = "armed"
      ELSE last.resp.status \in {400, 429, 500, 503}

\* A request is answered 200 while another one, whose timer won the race, is
\* still waiting for the late settlement of its send.
C7_Witness ==
  /\ last.resp.status = 200 /\ last.resp.success /\ last.by = "fulfilled"
  /\ \E r \in Live : r.pc = "done" /\ r.timer = "fired" /\ r.send = "pending"

\* C8: every request is eventually answered even if its send never settles:
\* a request that reached the dispatch is no longer waiting once its timeout
\* timer has fired, and a request that did not reach it is answered in the
\* step that received it.
C8_EveryRequestAnswered ==
  /\ []<>(answered = nreq)
  /\ [](\A r \in Live : r.timer = "fired" => r.pc = "done")
  /\ [][nreq' = nreq + 1 =>
          \/ answered' = answered + 1 /\ inflight' = inflight
          \/ answered' = answered /\ NumAwaiting' = NumAwaiting + 1]_vars

\* A request has been answered by its timer while its send is still
\* outstanding, and nothing is waiting.
C8_Witness ==
  /\ last.by = "timer" /\ answered = nreq
  /\ \E r \in Live : r.pc = "done" /\ r.send = "pending"

\* A step in which the loser of a race settles: no request arrives and no
\* handler stops waiting, yet an outstanding send or timer is consumed.
LoserSettles ==
  /\ nreq' = nreq
  /\ inflight' # inflight
  /\ NumAwaiting' = NumAwaiting

\* A step in which a race is decided.
WinnerSettles == nreq' = nreq /\ NumAwaiting' = NumAwaiting - 1

\* C9: each request produces exactly one response: the first settlement of
\* its race sends it, and the later settlement of the loser sends no response
\* and changes neither the ledger nor the transporter.
C9_ExactlyOneResponse ==
  /\ [](/\ answered + NumAwaiting = nreq
        /\ \A r \in Live : r.nresp = (IF r.pc = "await" THEN 0 ELSE 1))
  /\ [][/\ LoserSettles =>
             /\ answered' = answered /\ last' = NoResponse
             /\ UNCHANGED <<rateLimitMap, transporter, created, gateLog>>
        /\ WinnerSettles =>
             /\ answered' = answered + 1
             /\ last'.by \in {"fulfilled", "rejected", "timer"}
             /\ UNCHANGED <<rateLimitMap, transporter, created, gateLog>>]_vars

\* Both the send and the timer of an answered request have settled, the loser
\* last, and every request has exactly its one response.
C9_Witness ==
  /\ nreq > 0 /\ answered = nreq /\ inflight = EmptyBag
  /\ last = NoResponse
  /\ transporter = "built" \/ variant = "sendgrid"
  /\ \E id \in ClientIds : Admissions(id) # <<>>
  /\ credsPresent

\* C10: the provider send is invoked at most once for every request: no step
\* other than the arrival of a request invokes it, and that step invokes it
\* once.
C10_SendAtMostOnce ==
  /\ [](\A r \in Live : r.sendCalls = 1)
  /\ [][TotalSendCalls' > TotalSendCalls =>
          /\ nreq' = nreq + 1
          /\ TotalSendCalls' = TotalSendCalls + 1]_vars

\* The send of a request has failed, its handler has answered, and the
\* request is still known (its timer is armed) with its single send.
C10_Witness ==
  /\ last.by = "rejected"
  /\ \E r \in Live : r.pc = "done" /\ r.send = "settled" /\ r.sendCalls = 1

(***************************************************************************)
(* The ledger: properties                                                  *)
(***************************************************************************)
\* The ledger reduced to the entry of identifier id.
OnlyKey(id) == IF id \in DOMAIN rateLimitMap THEN (id :> rateLimitMap[id]) ELSE << >>

\* A step in which checkRateLimit is called for identifier id.
CalledFor(id) == Len(gateLog'[id]) = Len(gateLog[id]) + 1

LastCall(id) == gateLog[id][Len(gateLog[id])]

\* C11: a checkRateLimit call for identifier A leaves the entry of every other
\* identifier B as it was (present or absent, same timestamps), and the result
\* of a call for B is the result it has on a ledger holding B's entry alone.
C11_BucketsIndependent ==
  /\ [][\A A \in ClientIds : CalledFor(A) =>
          \A B \in ClientIds \ {A} :
            /\ (B \in DOMAIN rateLimitMap') <=> (B \in DOMAIN rateLimitMap)
            /\ Recorded(B)' = Recorded(B)]_vars
  /\ [](\A B \in ClientIds, maxRequests \in Quotas :
          checkRateLimit(rateLimitMap, B, maxRequests, WINDOW_MS, now).ok
            = checkRateLimit(OnlyKey(B), B, maxRequests, WINDOW_MS, now).ok)

\* A has exhausted its quota and been denied, and a later call for B, made at
\* the same instant with the same quota, was allowed.
C11_Witness ==
  \E A \in ClientIds, B \in ClientIds :
    /\ A # B /\ gateLog[A] # <<>> /\ gateLog[B] # <<>>
    /\ ~LastCall(A).ok /\ LastCall(A).seen > 0
    /\ LastCall(B).ok /\ LastCall(B).n > LastCall(A).n
    /\ LastCall(B).max = LastCall(A).max /\ LastCall(B).t = LastCall(A).t

(***************************************************************************)
(* Message bound, configuration, transporter: properties                   *)
(***************************************************************************)
\* The message of body b, as submitted, is longer than 5000 characters after
\* trimming.
Overlong(b) ==
  /\ Bodies[b].isObject /\ Bodies[b].message.t = "string"
  /\ Len(Trim(Bodies[b].message.v)) > 5000

\* C12: a submission whose message is longer than 5000 characters after
\* trimming is not dispatched; it is answered with HTTP 400, and with the
\* message-length reason when its other fields are valid.
C12_OverlongMessageRejected ==
  /\ \A r \in Live : ~Overlong(r.body)
  /\ (last.by # "none" /\ Overlong(last.body)) =>
       /\ last.by = "handler" /\ last.resp.status = 400
       /\ (Len(Submitted(last.body).name) \in 2..100
           /\ validateEmail(Str(Submitted(last.body).email)))
          => last.resp.message \in {MSG_MESSAGE_LONG, SG_MSG_MESSAGE}

\* C14: with the credentials absent, a valid and admitted request is answered
\* with HTTP 500 and the server-configuration-error message; the transporter
\* is never constructed, no send is made, and the error thrown inside
\* getTransporter never reaches a response.
C14_ConfigurationError ==
  /\ ~credsPresent =>
       /\ transporter = "null" /\ created = 0 /\ inflight = EmptyBag
       /\ (last.by # "none" /\ Acceptable(last.body) /\ last.admitted) =>
            /\ last.by = "handler" /\ last.send = "none"
            /\ last.resp = Response(500, FALSE, ConfigMessage(variant), NoError)
  /\ last.by = "handler" =>
       /\ last.resp.status \in {400, 429, 500}
       /\ last.resp.status = 500 => (~credsPresent /\ last.resp.message = ConfigMessage(variant))
       /\ last.resp.error = NoError

\* A valid request, admitted by the rate limiter, has just been answered with
\* the configuration error.
C14_Witness ==
  /\ ~credsPresent /\ last.by = "handler" /\ last.admitted
  /\ Acceptable(last.body) /\ last.resp.status = 500
  /\ gateLog[last.ip] # <<>> /\ LastCall(last.ip).ok

\* C19: the transporter is constructed at most once; once built it stays
\* built; it is built exactly when a request has reached the dispatch of the
\* nodemailer handler, and never while the credentials are absent.
C19_TransporterBuiltOnce ==
  /\ [](/\ created <= 1
        /\ (created = 1) <=> (transporter = "built")
        /\ ~credsPresent => created = 0
        /\ (variant = "smtp" /\ inflight # EmptyBag) => transporter = "built"
        /\ variant = "sendgrid" => transporter = "null")
  /\ [][/\ transporter = "built" => transporter' = "built" /\ created' = created
        /\ created' # created =>
             /\ nreq' = nreq + 1 /\ created = 0
             /\ NumAwaiting' = NumAwaiting + 1]_vars

\* The transporter was built by the first dispatched request and three
\* requests have been dispatched in all, two of them still outstanding.
C19_Witness ==
  /\ variant = "smtp" /\ created = 1 /\ transporter = "built"
  /\ nreq = 3 /\ Len(Admissions("ip1")) + Len(Admissions("unknown")) = 3
  /\ NumSending = 2

(***************************************************************************)
(* Diagnostics: properties                                                 *)
(***************************************************************************)
\* The response the deployed handler gives to a send that failed.
FailureResponse(code, msg) ==
  IF variant = "legacy" THEN LegacyCatch(code, msg) ELSE Catch(variant, isDev, code, msg)

\* The diagnostic fields a response carries.
Diagnostics(resp) ==
  {f \in DOMAIN resp \cap {"error", "errorDetails", "errorCode", "stack"} :
     resp[f] \notin {NoError, NoCode}}

\* C13: outside development mode no response carries a diagnostic field, and
\* the response to a failed send is the one any other failure of its class
\* would get, whatever the underlying error message.
C13_NoDiagnosticsInProduction ==
  (~isDev /\ last.by # "none") =>
    /\ Diagnostics(last.resp) = {}
    /\ last.by = "rejected" =>
         \A msg \in DiagnosticMessages : last.resp = FailureResponse(last.code, msg)

(***************************************************************************)
(* Helper functions: properties                                            *)
(***************************************************************************)
\* C15: sanitizeInput applied to its own result returns that result.
C15_SanitizeIdempotent ==
  call.fn = "sanitizeInput twice" => call.result = call.once

StartsWith(s, p) == Len(s) >= Len(p) /\ SubSeq(s, 1, Len(p)) = p

\* The five characters and their entities.
Entities ==
  {<<"&", <<"&", "a", "m", "p", ";">> >>, <<"<", <<"&", "l", "t", ";">> >>,
   <<">", <<"&", "g", "t", ";">> >>, <<"\"", <<"&", "q", "u", "o", "t", ";">> >>,
   <<"'", <<"&", "#", "0", "3", "9", ";">> >>}

RECURSIVE Decode(_, _)
\* What a browser shows for markup s: entities as their characters, <br> (when
\* br) as a newline; a raw & < > " ' is shown as the mark "<raw>".
Decode(s, br) ==
  IF s = <<>> THEN <<>>
  ELSE IF \E x \in Entities : StartsWith(s, x[2])
    THEN LET x == CHOOSE y \in Entities : StartsWith(s, y[2])
         IN <<x[1]>> \o Decode(SubSeq(s, Len(x[2]) + 1, Len(s)), br)
  ELSE IF br /\ StartsWith(s, <<"<", "b", "r", ">">>)
    THEN <<"\n">> \o Decode(SubSeq(s, 5, Len(s)), br)
  ELSE IF Head(s) \in {"&", "<", ">", "\"", "'"}
    THEN <<"<raw>">> \o Decode(Tail(s), br)
  ELSE <<Head(s)>> \o Decode(Tail(s), br)

\* Number of the characters of s that escapeHtml replaces.
Escaped(s) == Cardinality({i \in 1..Len(s) : s[i] \in {"&", "<", ">", "\"", "'"}})

\* C20: escapeHtml replaces each of & < > " ' by its entity, once, and leaves
\* every other character: its result holds no raw < > " ', decodes to the
\* argument, and is longer only by the entities; the HTML body holds the
\* escaped name, email and message, the plain-text body the values themselves.
C20_EscapeHtml ==
  /\ call.fn = "escapeHtml" =>
       /\ \A i \in 1..Len(call.result) : call.result[i] \notin {"<", ">", "\"", "'"}
       /\ Decode(call.result, FALSE) = call.arg.v
       /\ Escaped(call.arg.v) = 0 => call.result = call.arg.v
       /\ Len(call.result) >= Len(call.arg.v) + 3 * Escaped(call.arg.v)
       /\ Len(call.result) <= Len(call.arg.v) + 5 * Escaped(call.arg.v)
  /\ call.fn = "mailOptions" =>
       LET name == call.arg.v
           email == <<"e">> \o call.arg.v
           message == call.arg.v \o <<"\n">> \o call.arg.v
           html == call.result.html
           text == call.result.text
       IN /\ Decode(html[2], FALSE) = name
          /\ Decode(html[4], FALSE) = email
          /\ Decode(html[6], TRUE) = message
          /\ text[2] = name /\ text[4] = email /\ text[6] = message

\* A mail was built for a name holding a bracket, an ampersand and a quote:
\* the HTML body holds their entities, the plain-text body the characters.
C20_Witness ==
  /\ call.fn = "mailOptions"
  /\ call.arg.v = <<"<", "&", "'">>
  /\ call.result.html[2] =
       <<"&", "l", "t", ";", "&", "a", "m", "p", ";", "&", "#", "0", "3", "9", ";">>
  /\ call.result.text[2] = <<"<", "&", "'">>


(***************************************************************************)
(* The ledger: pruning                                                     *)
(***************************************************************************)
\* Every timestamp the ledger holds for id lies within the window ending now.
Fresh(id) == \A i \in 1..Len(Recorded(id)) : now - Recorded(id)[i] < WINDOW_MS

\* A step of the setInterval callback.
SweepStep == nextSweep' # nextSweep

\* The instant of the last sweep (0 when none has run).
LastSweep == nextSweep - SWEEP_INTERVAL_MS

\* C16 as stated: in every reachable state every retained timestamp t of every
\* key satisfies now - t < 3600000.
C16_AllRetainedWithinWindow == \A id \in ClientIds : Fresh(id)

\* C16: no retained timestamp lies in the future; immediately after a sweep
\* every retained timestamp of every key lies within the window, and
\* immediately after an allowed call for a key every retained timestamp of
\* that key does; a denied call and the passing of time prune nothing.
C16_RetainedWithinWindowAfterPruning ==
  /\ [](\A id \in ClientIds : \A i \in 1..Len(Recorded(id)) : Recorded(id)[i] <= now)
  /\ [][SweepStep => \A id \in ClientIds : Fresh(id)']_vars
  /\ [][\A id \in ClientIds : (CalledFor(id) /\ LastCall(id)'.ok) => Fresh(id)']_vars
  /\ [][\A id \in ClientIds :
          (CalledFor(id) /\ ~LastCall(id)'.ok) => Recorded(id)' = Recorded(id)]_vars
  /\ [][now' # now => rateLimitMap' = rateLimitMap]_vars

\* An admission of id has left the window; a later call for id, made before
\* any sweep at or after the expiry, was allowed and dropped the expired
\* timestamp, so that the ledger holds the new one alone.
C16_Witness ==
  \E id \in ClientIds :
    /\ Len(gateLog[id]) >= 2
    /\ gateLog[id][1].ok /\ LastCall(id).ok
    /\ LastCall(id).t - gateLog[id][1].t >= WINDOW_MS
    /\ LastSweep < gateLog[id][1].t + WINDOW_MS
    /\ Recorded(id) = <<LastCall(id).t>>

\* C17 as stated: a denied checkRateLimit call leaves the whole ledger
\* unchanged, whatever the identifier and maxRequests.
C17_DeniedLeavesLedger ==
  [][\A id \in ClientIds :
       (CalledFor(id) /\ ~LastCall(id)'.ok) => rateLimitMap' = rateLimitMap]_vars

\* The identifiers whose timestamps have all left the window.
Expired(map, t) == {id \in DOMAIN map : Recent(map[id], t, SWEEP_WINDOW_MS) = <<>>}

\* checkRateLimit for identifier id answers as for a never-seen identifier:
\* allowed under a positive quota, leaving the timestamp of the call alone.
BehavesAsFresh(map, id, t) ==
  \A maxRequests \in Quotas :
    LET rl == checkRateLimit(map, id, maxRequests, WINDOW_MS, t)
        fresh == checkRateLimit(<< >>, id, maxRequests, WINDOW_MS, t)
    IN /\ rl.ok = fresh.ok /\ rl.map[id] = fresh.map[id]
       /\ maxRequests >= 1 => (rl.ok /\ rl.map[id] = <<t>>)

\* C18: immediately after a sweep every key left in the ledger maps to a
\* non-empty sequence of timestamps within the window, every identifier whose
\* timestamps had all expired has no entry, and the next checkRateLimit call
\* for such an identifier is allowed and leaves it with exactly one timestamp,
\* as for a never-seen identifier.
C18_SweepRemovesExpired ==
  /\ [][SweepStep =>
          /\ \A k \in DOMAIN rateLimitMap' : rateLimitMap'[k] # <<>> /\ Fresh(k)'
          /\ \A id \in Expired(rateLimitMap, now) :
               /\ id \notin DOMAIN rateLimitMap'
               /\ BehavesAsFresh(rateLimitMap', id, now')]_vars
  /\ [][\A id \in ClientIds :
          (CalledFor(id) /\ id \notin DOMAIN rateLimitMap /\ LastCall(id)'.max >= 1)
            => (LastCall(id)'.ok /\ Recorded(id)' = <<now>>)]_vars

\* An admission of id left the window, a sweep then ran, and the one call for
\* id made since was allowed on a count of 0 and left one timestamp.
C18_Witness ==
  \E id \in ClientIds :
    /\ Len(gateLog[id]) = 2
    /\ gateLog[id][1].ok /\ LastCall(id).ok /\ LastCall(id).seen = 0
    /\ LastSweep >= gateLog[id][1].t + WINDOW_MS
    /\ LastCall(id).t >= LastSweep
    /\ Recorded(id) = <<LastCall(id).t>>

(***************************************************************************)
(* validateEmail: properties                                               *)
(***************************************************************************)
\* x is text that, trimmed and lowercased, holds no white space, exactly one
\* @ with something before it, after the @ a dot with at least one character
\* on each side, and at most 254 characters.
WellFormedEmail(x) ==
  /\ x.t = "string"
  /\ LET s == ToLowerCase(Trim(x.v))
         n == Len(s)
         ats == {i \in 1..n : s[i] = "@"}
     IN /\ \A i \in 1..n : s[i] \notin WhiteSpace
        /\ Cardinality(ats) = 1
        /\ \A at \in ats :
             /\ at > 1
             /\ \E d \in (at + 1)..n : s[d] = "." /\ d > at + 1 /\ d < n
        /\ n <= EMAIL_MAX

\* C21: validateEmail(s) is true exactly when s is text that, trimmed and
\* lowercased, holds no white space, exactly one @ with a non-empty part
\* before it, after the @ a dot with at least one character on each side,
\* and at most 254 characters; every other input gives false.
C21_ValidateEmail ==
  call.fn = "validateEmail" => (call.result <=> WellFormedEmail(call.arg))

\* An address of more than 254 characters of which exactly 254 are left by
\* trimming was accepted.
C21_Witness ==
  /\ call.fn = "validateEmail" /\ call.result = TRUE
  /\ Len(call.arg.v) > EMAIL_MAX
  /\ Len(Trim(call.arg.v)) = EMAIL_MAX

(***************************************************************************)
(* Validation and the gate: properties                                     *)
(***************************************************************************)
\* A step in which the handler of a new request runs.
RequestStep == nreq' = nreq + 1

\* The timestamps of id that count at the present instant.
Counted(id) == Len(Recent(Recorded(id), now, WINDOW_MS))

\* C22: a request answered with HTTP 400 leaves the ledger unchanged (no
\* checkRateLimit call, no timestamp, no new key), and a request whose
\* submission fails validation is answered 400 by the handler, never 429,
\* also when its client has exhausted the quota; a 429 is only given to a
\* valid submission that checkRateLimit has just denied.
C22_ValidationBeforeRateLimit ==
  /\ [][(RequestStep /\ last'.resp.status = 400) =>
          (rateLimitMap' = rateLimitMap /\ gateLog' = gateLog)]_vars
  /\ [][(RequestStep /\ last'.by = "handler" /\ ~Acceptable(last'.body)) =>
          (last'.resp.status = 400 /\ rateLimitMap' = rateLimitMap)]_vars
  /\ [](last.resp.status = 429 =>
          /\ Acceptable(last.body)
          /\ gateLog[last.ip] # <<>> /\ ~LastCall(last.ip).ok
          /\ Counted(last.ip) >= MAX_REQUESTS)

\* A client that has used its five admissions of the window has just sent an
\* invalid submission and got a 400.
C22_Witness ==
  /\ last.by = "handler" /\ last.resp.status = 400 /\ ~Acceptable(last.body)
  /\ Counted(last.ip) = MAX_REQUESTS
  /\ Len(gateLog[last.ip]) = MAX_REQUESTS

\* The admissions of id whose time lies within the window ending now.
AdmittedInWindow(id) ==
  Cardinality({i \in 1..Len(gateLog[id]) :
                 gateLog[id][i].ok /\ now - gateLog[id][i].t < WINDOW_MS})

\* C23: the step that admits a request records its timestamp, whether the
\* step ends in the configuration error or in the dispatch; no settlement of
\* a send (fulfilment, failure, timeout) and no clock advance changes the
\* ledger, and a sweep drops expired timestamps only; so every admission of
\* the window counts, whatever its outcome, and a request of a client with
\* five admissions in the window is answered 429.
C23_AdmissionConsumesQuota ==
  /\ [][\A id \in ClientIds : (CalledFor(id) /\ LastCall(id)'.ok) =>
          Recorded(id)' = Append(Recent(Recorded(id), now, WINDOW_MS), now)]_vars
  /\ [][(nreq' = nreq /\ ~SweepStep) => rateLimitMap' = rateLimitMap]_vars
  /\ [][SweepStep => \A id \in ClientIds :
          Recent(Recorded(id)', now', WINDOW_MS) = Recent(Recorded(id), now, WINDOW_MS)]_vars
  /\ [](\A id \in ClientIds : Counted(id) = AdmittedInWindow(id))
  /\ [][\A id \in ClientIds :
          (CalledFor(id) /\ AdmittedInWindow(id) >= MAX_REQUESTS) =>
            (last'.resp.status = 429 /\ last'.ip = id /\ ~LastCall(id)'.ok)]_vars
  /\ [](last.by \in {"rejected", "timer"} =>
          (last.admitted /\ ~last.resp.success /\ gateLog[last.ip] # <<>>))

\* The credentials are absent, so each of the five admitted requests of a
\* client was answered with the configuration error; its sixth request, in
\* the same window, has just been answered 429.
C23_Witness ==
  /\ ~credsPresent /\ answered = MAX_REQUESTS + 1
  /\ last.by = "handler" /\ last.resp.status = 429
  /\ Len(gateLog[last.ip]) = MAX_REQUESTS + 1
  /\ \A i \in 1..MAX_REQUESTS :
       gateLog[last.ip][i].ok /\ now - gateLog[last.ip][i].t < WINDOW_MS

(***************************************************************************)
(* The sweep: transparency                                                 *)
(***************************************************************************)
\* The k-th checkRateLimit call of the behaviour: its identifier and record.
CallNo(k) ==
  LET id == CHOOSE c \in ClientIds : \E i \in 1..Len(gateLog[c]) : gateLog[c][i].n = k
      i == CHOOSE j \in 1..Len(gateLog[id]) : gateLog[id][j].n = k
  IN [id |-> id, e |-> gateLog[id][i]]

RECURSIVE Unswept(_)
\* The result of the k-th call and the ledger after it, had the same calls
\* been made at the same instants on a ledger that is never swept.
Unswept(k) ==
  IF k = 0 THEN [ok |-> TRUE, map |-> << >>]
  ELSE LET c == CallNo(k)
       IN checkRateLimit(Unswept(k - 1).map, c.id, c.e.max, WINDOW_MS, c.e.t)

UnsweptLedger == Unswept(NumCalls(gateLog)).map

\* C24: every checkRateLimit call returns what the same call returns on a
\* ledger that was never swept, wherever sweeps fall between the calls, and
\* the two ledgers hold the same timestamps of the current window for every
\* identifier, so that they agree on every later call as well.
C24_SweepTransparent ==
  /\ \A k \in 1..NumCalls(gateLog) : CallNo(k).e.ok = Unswept(k).ok
  /\ \A id \in ClientIds :
       Recent(Recorded(id), now, WINDOW_MS)
         = Recent(IF id \in DOMAIN UnsweptLedger THEN UnsweptLedger[id] ELSE <<>>,
                  now, WINDOW_MS)
  /\ \A id \in ClientIds, maxRequests \in Quotas :
       checkRateLimit(rateLimitMap, id, maxRequests, WINDOW_MS, now).ok
         = checkRateLimit(UnsweptLedger, id, maxRequests, WINDOW_MS, now).ok

\* A sweep has left the ledger different from the unswept one, and a call
\* made after it was denied on a timestamp the sweep retained.
C24_Witness ==
  /\ LastSweep > 0
  /\ rateLimitMap # UnsweptLedger
  /\ \E id \in ClientIds :
       /\ gateLog[id] # <<>>
       /\ LastCall(id).t >= LastSweep
       /\ ~LastCall(id).ok /\ LastCall(id).max >= 1
=============================================================================
